---- MODULE Spec2Model ----
(***************************************************************************)
(* Model of package dune: the retry policy (retries.go) and the retrying   *)
(* HTTP request executor (http.go).                                        *)
(*                                                                         *)
(* Durations are integers counted in milliseconds.  Strings that the code  *)
(* parses (header values) are tuples of one-character strings, so that     *)
(* strconv.Atoi is modelled by what it does.  A nil pointer / nil error /  *)
(* absent value is the empty tuple <<>>, a present one is <<v>>.           *)
(***************************************************************************)
EXTENDS Integers, Sequences, FiniteSets, TLC

VARIABLES
    pc,        \* position of the httpRequest call: "Do", "Sleep", "Returned", "Decoded"
    attempt,   \* local variable attempt of httpRequest
    resp,      \* local variable resp of the current loop iteration: <<>> or <<response>>
    snippetBytes, \* local variable snippetBytes of the current loop iteration: <<>> or <<bytes read>>
    apiErr,    \* local variable apiErr of the current loop iteration: <<>> or <<APIError>>
    sleep,     \* duration handed to the time.Sleep in progress
    defers,    \* deferred resp.Body.Close() calls of the running httpRequest (attempt numbers)
    ret,       \* response returned by httpRequest: <<>> or <<response>>
    err,       \* error returned by httpRequest: <<>> or <<error>>
    decodeErr, \* error returned by decodeBody: <<>> or <<error>>
    log,       \* one entry per transport call made so far
    sleeps,    \* the completed sleeps, in order
    policy,    \* receiver of the NextBackoff calls under study
    calls,     \* NextBackoff results for attempt = 1..Len(calls) under policy
    header,    \* argument of the parseRateLimitHeaders call under study
    parsed,    \* <<>> before that call, <<its result>> after it
    global,    \* package variable defaultRetryPolicy as the concurrent calls see it
    conc       \* the concurrent httpRequest calls: call -> its local state

vars == <<pc, attempt, resp, snippetBytes, apiErr, sleep, defers, ret, err, decodeErr, log, sleeps, policy, calls, header, parsed, global, conc>>

reqVars == <<pc, attempt, resp, snippetBytes, apiErr, sleep, defers, ret, err, decodeErr, log, sleeps>>

backoffVars == <<policy, calls>>

rateLimitVars == <<header, parsed>>

concVars == <<global, conc>>

(***************************************************************************)
(* Units of time.Duration                                                  *)
(***************************************************************************)
Millisecond == 1

Second == 1000 * Millisecond

(***************************************************************************)
(* Bounds of the model                                                     *)
(***************************************************************************)
\* largest attempt argument NextBackoff is called with in BackoffSpec
MaxAttemptArg == 8

\* length of the largest response body the transport delivers
MaxBodyLen == 3000

(***************************************************************************)
(* retries.go                                                              *)
(***************************************************************************)
defaultRetryPolicy ==
    [MaxAttempts          |-> 5,
     InitialBackoff       |-> 2 * Second,
     MaxBackoff           |-> 60 * Second,
     Jitter               |-> 250 * Millisecond,
     RetryableStatusCodes |-> <<429, 500, 502, 503, 504>>]

\* BackoffLoop without the clamp to MaxBackoff
RECURSIVE BackoffLoopNoClamp(_, _, _, _)
BackoffLoopNoClamp(p, b, i, att) ==
    IF i < att THEN BackoffLoopNoClamp(p, b * 2, i + 1, att) ELSE b

\* the for loop of NextBackoff, entered with loop variable i and value b
RECURSIVE BackoffLoop(_, _, _, _)
BackoffLoop(p, b, i, att) ==
    IF i < att
    THEN LET b2 == b * 2
         IN  IF b2 > p.MaxBackoff
             THEN p.MaxBackoff
             ELSE BackoffLoop(p, b2, i + 1, att)
    ELSE b

\* NextBackoff doubling once too often (loop started at i = 0)
NextBackoffFromZero(p, att) ==
    LET b == BackoffLoop(p, p.InitialBackoff, 0, att)
    IN  IF p.Jitter > 0 THEN b + p.Jitter ELSE b

NextBackoff(p, att) ==
    LET b == BackoffLoop(p, p.InitialBackoff, 1, att)
    IN  IF p.Jitter > 0 THEN b + p.Jitter ELSE b

(***************************************************************************)
(* strconv.Atoi / strconv.ParseInt(s, 10, 64) on a tuple of characters:   *)
(* an optional sign followed by at least one decimal digit.                *)
(***************************************************************************)
Digits == <<"0", "1", "2", "3", "4", "5", "6", "7", "8", "9">>

IsDigit(c) == \E d \in 1..10 : Digits[d] = c

DigitVal(c) == (CHOOSE d \in 1..10 : Digits[d] = c) - 1

RECURSIVE DigitsVal(_)
DigitsVal(s) ==
    IF s = <<>> THEN 0
    ELSE 10 * DigitsVal(SubSeq(s, 1, Len(s) - 1)) + DigitVal(s[Len(s)])

\* result of Atoi: [ok |-> err == nil, v |-> value]
Atoi(s) ==
    LET signed == Len(s) > 0 /\ s[1] \in {"+", "-"}
        body   == IF signed THEN Tail(s) ELSE s
    IN  IF body # <<>> /\ \A k \in 1..Len(body) : IsDigit(body[k])
        THEN [ok |-> TRUE,
              v  |-> IF signed /\ s[1] = "-" THEN 0 - DigitsVal(body) ELSE DigitsVal(body)]
        ELSE [ok |-> FALSE, v |-> 0]

(***************************************************************************)
(* Error values.  An error is [type, text, wraps]: text is what Error()    *)
(* prints (format and arguments), wraps the errors Unwrap() returns.       *)
(***************************************************************************)
errorsNew(text) == [type |-> "errorString", text |-> <<text>>, wraps |-> <<>>]

ErrorReqUnsuccessful == errorsNew("request was not successful")

\* (*APIError).Error()
\* the printed text is [format, and the fields it prints]
APIErrorError(e) ==
    IF e.BodySnippet.len # 0
    THEN [format |-> "http %d %s: %s", StatusCode |-> e.StatusCode, StatusText |-> e.StatusText,
          BodySnippet |-> e.BodySnippet]
    ELSE [format |-> "http %d %s", StatusCode |-> e.StatusCode, StatusText |-> e.StatusText]

\* the transport error wrapped in the sentinel instead of its cause
ErrorfSendAsUnsuccessful(cause) ==
    [type  |-> "wrapError",
     text  |-> <<"failed to send request: %w", ErrorReqUnsuccessful.text>>,
     wraps |-> <<ErrorReqUnsuccessful>>]

\* fmt.Errorf("failed to send request: %w", err)
ErrorfSend(cause) ==
    [type |-> "wrapError", text |-> <<"failed to send request: %w", cause.text>>, wraps |-> <<cause>>]

\* fmt.Errorf("%w: %v", ErrorReqUnsuccessful, apiErr)
ErrorfUnsuccessful(e) ==
    [type  |-> "wrapError",
     text  |-> <<"%w: %v", ErrorReqUnsuccessful.text, APIErrorError(e)>>,
     wraps |-> <<ErrorReqUnsuccessful>>]

\* fmt.Errorf("%w: unexpected error state", ErrorReqUnsuccessful)
ErrorfUnexpected ==
    [type  |-> "wrapError",
     text  |-> <<"%w: unexpected error state", ErrorReqUnsuccessful.text>>,
     wraps |-> <<ErrorReqUnsuccessful>>]

\* errors.Is(e, target)
RECURSIVE errorsIs(_, _)
errorsIs(e, target) ==
    \/ e = target
    \/ \E k \in 1..Len(e.wraps) : errorsIs(e.wraps[k], target)

\* the errors reachable from e by Unwrap, e included
RECURSIVE errorChain(_)
errorChain(e) ==
    {e} \cup UNION {errorChain(e.wraps[k]) : k \in 1..Len(e.wraps)}

(***************************************************************************)
(* Responses delivered by the transport                                    *)
(***************************************************************************)
\* length of the JSON text {"error":""} around the value of the error field
JSONOverhead == 12

\* number of bytes io.LimitReader lets through
SnippetLimit == 1024

\* shape "errorObject": a JSON object whose "error" field is a non-empty string;
\* shape "otherObject": a JSON object without a non-empty "error" string;
\* shape "notJSON": anything json.Unmarshal rejects.
Bodies ==
    {[shape |-> "errorObject", len |-> n] :
        n \in {JSONOverhead + 3, SnippetLimit, SnippetLimit + 1}}
    \cup {[shape |-> "otherObject", len |-> JSONOverhead]}
    \cup {[shape |-> "notJSON", len |-> n] : n \in {0, SnippetLimit + 1, MaxBodyLen}}

\* header values as sent; <<>> is what Header.Get returns for an absent header
RetryAfterValues == {<<>>, <<"1">>, <<"1", "2", "0">>, <<"-", "5">>, <<"s", "o", "o", "n">>}

RateLimitValues ==
    {[Limit |-> <<>>, Remaining |-> <<>>, Reset |-> <<>>],
     [Limit |-> <<>>, Remaining |-> <<"0">>, Reset |-> <<>>],
     [Limit |-> <<"4", "0">>, Remaining |-> <<"0">>, Reset |-> <<"1", "7">>]}

\* resp.Header, by canonical header name
Headers ==
    {[RetryAfter |-> ra, Limit |-> rl.Limit, Remaining |-> rl.Remaining, Reset |-> rl.Reset] :
        ra \in RetryAfterValues, rl \in RateLimitValues}

StatusCodes == {200, 204, 404, 503}

StatusText(code) ==
    CASE code = 200 -> "200 OK"
      [] code = 204 -> "204 No Content"
      [] code = 404 -> "404 Not Found"
      [] code = 503 -> "503 Service Unavailable"
      [] OTHER      -> "unknown"

Responses ==
    {[StatusCode |-> c, Status |-> StatusText(c), Header |-> h, Body |-> b] :
        c \in StatusCodes, h \in Headers, b \in Bodies}

\* errors of http.DefaultClient.Do
TransportErrors == {errorsNew("dial tcp: connection refused"), errorsNew("context canceled")}

(***************************************************************************)
(* http.go                                                                 *)
(***************************************************************************)
\* parseRateLimitHeaders returning nil as soon as one of the three values is zero
parseRateLimitHeadersAnyZero(h) ==
    LET lim    == Atoi(h.Limit)
        rem    == Atoi(h.Remaining)
        rst    == Atoi(h.Reset)
        limit     == IF h.Limit # <<>> /\ lim.ok THEN lim.v ELSE 0
        remaining == IF h.Remaining # <<>> /\ rem.ok THEN rem.v ELSE 0
        reset     == IF h.Reset # <<>> /\ rst.ok THEN rst.v ELSE 0
    IN  IF limit = 0 \/ remaining = 0 \/ reset = 0
        THEN <<>>
        ELSE <<[Limit |-> limit, Remaining |-> remaining, Reset |-> reset]>>

parseRateLimitHeaders(h) ==
    LET lim    == Atoi(h.Limit)
        rem    == Atoi(h.Remaining)
        rst    == Atoi(h.Reset)
        limit     == IF h.Limit # <<>> /\ lim.ok THEN lim.v ELSE 0
        remaining == IF h.Remaining # <<>> /\ rem.ok THEN rem.v ELSE 0
        reset     == IF h.Reset # <<>> /\ rst.ok THEN rst.v ELSE 0
    IN  IF limit = 0 /\ remaining = 0 /\ reset = 0
        THEN <<>>
        ELSE <<[Limit |-> limit, Remaining |-> remaining, Reset |-> reset]>>

\* ReadSnippet reading the body to its end
ReadSnippetUnlimited(body) == [shape |-> body.shape, len |-> body.len, cut |-> FALSE]

\* io.ReadAll(io.LimitReader(resp.Body, 1024)): the bytes read, as a body prefix
ReadSnippet(body) ==
    IF body.len <= SnippetLimit
    THEN [shape |-> body.shape, len |-> body.len, cut |-> FALSE]
    ELSE [shape |-> body.shape, len |-> SnippetLimit, cut |-> TRUE]

\* json.Unmarshal(snippetBytes, &errorResp): [ok |-> err == nil, Error |-> errorResp.Error]
\* a string is [of |-> what it is a copy of, len |-> its length]
Unmarshal(snippet) ==
    IF snippet.cut \/ snippet.shape = "notJSON"
    THEN [ok |-> FALSE, Error |-> [of |-> "error field", len |-> 0]]
    ELSE IF snippet.shape = "errorObject"
         THEN [ok |-> TRUE, Error |-> [of |-> "error field", len |-> snippet.len - JSONOverhead]]
         ELSE [ok |-> TRUE, Error |-> [of |-> "error field", len |-> 0]]

\* string(snippetBytes)
SnippetString(snippet) == [of |-> "snippet", len |-> snippet.len]

\* ErrorFieldBranch giving up one attempt early
ErrorFieldBranchStopsEarly(r, errorResp, p, att) ==
    LET msg        == errorResp.Error
        rl         == parseRateLimitHeaders(r.Header)
        ra         == r.Header.RetryAfter
        secs       == Atoi(ra)
        retryAfter == IF ra # <<>> /\ secs.ok THEN secs.v * Second ELSE 0
        e          == [StatusCode |-> r.StatusCode, StatusText |-> r.Status, BodySnippet |-> msg,
                       RateLimit |-> rl, RetryAfter |-> retryAfter]
        retryable  == \E k \in 1..Len(p.RetryableStatusCodes) :
                          r.StatusCode = p.RetryableStatusCodes[k]
        backoff    == NextBackoff(p, att)
    IN  [apiErr |-> e,
         retry  |-> retryable /\ att + 1 < p.MaxAttempts,
         sleep  |-> IF e.RetryAfter > 0 /\ e.RetryAfter > backoff THEN e.RetryAfter ELSE backoff,
         returned |-> TRUE]

\* ErrorFieldBranch sleeping the computed backoff whatever Retry-After says
ErrorFieldBranchIgnoresRetryAfter(r, errorResp, p, att) ==
    LET msg        == errorResp.Error
        rl         == parseRateLimitHeaders(r.Header)
        ra         == r.Header.RetryAfter
        secs       == Atoi(ra)
        retryAfter == IF ra # <<>> /\ secs.ok THEN secs.v * Second ELSE 0
        e          == [StatusCode |-> r.StatusCode, StatusText |-> r.Status, BodySnippet |-> msg,
                       RateLimit |-> rl, RetryAfter |-> retryAfter]
        retryable  == \E k \in 1..Len(p.RetryableStatusCodes) :
                          r.StatusCode = p.RetryableStatusCodes[k]
        backoff    == NextBackoff(p, att)
    IN  [apiErr |-> e,
         retry  |-> retryable /\ att < p.MaxAttempts,
         sleep  |-> backoff,
         returned |-> TRUE]

\* the branch taken when the snippet parses and errorResp.Error is not empty:
\* [apiErr, retry (sleep and continue), sleep (the duration slept),
\*  returned (the branch ends in its return statement when it does not continue)]
ErrorFieldBranch(r, errorResp, p, att) ==
    LET msg        == errorResp.Error
        rl         == parseRateLimitHeaders(r.Header)
        ra         == r.Header.RetryAfter
        secs       == Atoi(ra)
        retryAfter == IF ra # <<>> /\ secs.ok THEN secs.v * Second ELSE 0
        e          == [StatusCode |-> r.StatusCode, StatusText |-> r.Status, BodySnippet |-> msg,
                       RateLimit |-> rl, RetryAfter |-> retryAfter]
        retryable  == \E k \in 1..Len(p.RetryableStatusCodes) :
                          r.StatusCode = p.RetryableStatusCodes[k]
        backoff    == NextBackoff(p, att)
    IN  [apiErr |-> e,
         retry  |-> retryable /\ att < p.MaxAttempts,
         sleep  |-> IF e.RetryAfter > 0 /\ e.RetryAfter > backoff THEN e.RetryAfter ELSE backoff,
         returned |-> TRUE]

\* RawSnippetBranch allowing one attempt more than MaxAttempts
RawSnippetBranchExtraAttempt(r, snippet, p, att) ==
    LET msg        == SnippetString(snippet)
        rl         == parseRateLimitHeaders(r.Header)
        ra         == r.Header.RetryAfter
        secs       == Atoi(ra)
        retryAfter == IF ra # <<>> /\ secs.ok THEN secs.v * Second ELSE 0
        e          == [StatusCode |-> r.StatusCode, StatusText |-> r.Status, BodySnippet |-> msg,
                       RateLimit |-> rl, RetryAfter |-> retryAfter]
        retryable  == \E k \in 1..Len(p.RetryableStatusCodes) :
                          r.StatusCode = p.RetryableStatusCodes[k]
        backoff    == NextBackoff(p, att)
    IN  [apiErr |-> e,
         retry  |-> retryable /\ att < p.MaxAttempts + 1,
         sleep  |-> IF e.RetryAfter > 0 /\ e.RetryAfter > backoff THEN e.RetryAfter ELSE backoff,
         returned |-> TRUE]

\* RawSnippetBranch retrying whatever the status code
RawSnippetBranchRetriesAll(r, snippet, p, att) ==
    LET msg        == SnippetString(snippet)
        rl         == parseRateLimitHeaders(r.Header)
        ra         == r.Header.RetryAfter
        secs       == Atoi(ra)
        retryAfter == IF ra # <<>> /\ secs.ok THEN secs.v * Second ELSE 0
        e          == [StatusCode |-> r.StatusCode, StatusText |-> r.Status, BodySnippet |-> msg,
                       RateLimit |-> rl, RetryAfter |-> retryAfter]
        retryable  == \E k \in 1..Len(p.RetryableStatusCodes) :
                          r.StatusCode = p.RetryableStatusCodes[k]
        backoff    == NextBackoff(p, att)
    IN  [apiErr |-> e,
         retry  |-> att < p.MaxAttempts,
         sleep  |-> IF e.RetryAfter > 0 /\ e.RetryAfter > backoff THEN e.RetryAfter ELSE backoff,
         returned |-> TRUE]

\* RawSnippetBranch returning only for a status that is not retryable
RawSnippetBranchFallsThrough(r, snippet, p, att) ==
    LET msg        == SnippetString(snippet)
        rl         == parseRateLimitHeaders(r.Header)
        ra         == r.Header.RetryAfter
        secs       == Atoi(ra)
        retryAfter == IF ra # <<>> /\ secs.ok THEN secs.v * Second ELSE 0
        e          == [StatusCode |-> r.StatusCode, StatusText |-> r.Status, BodySnippet |-> msg,
                       RateLimit |-> rl, RetryAfter |-> retryAfter]
        retryable  == \E k \in 1..Len(p.RetryableStatusCodes) :
                          r.StatusCode = p.RetryableStatusCodes[k]
        backoff    == NextBackoff(p, att)
    IN  [apiErr |-> e,
         retry  |-> retryable /\ att < p.MaxAttempts,
         sleep  |-> IF e.RetryAfter > 0 /\ e.RetryAfter > backoff THEN e.RetryAfter ELSE backoff,
         returned |-> ~retryable]

\* RawSnippetBranch that does not parse the rate-limit headers
RawSnippetBranchNoRateLimit(r, snippet, p, att) ==
    LET msg        == SnippetString(snippet)
        rl         == <<>>
        ra         == r.Header.RetryAfter
        secs       == Atoi(ra)
        retryAfter == IF ra # <<>> /\ secs.ok THEN secs.v * Second ELSE 0
        e          == [StatusCode |-> r.StatusCode, StatusText |-> r.Status, BodySnippet |-> msg,
                       RateLimit |-> rl, RetryAfter |-> retryAfter]
        retryable  == \E k \in 1..Len(p.RetryableStatusCodes) :
                          r.StatusCode = p.RetryableStatusCodes[k]
        backoff    == NextBackoff(p, att)
    IN  [apiErr |-> e,
         retry  |-> retryable /\ att < p.MaxAttempts,
         sleep  |-> IF e.RetryAfter > 0 /\ e.RetryAfter > backoff THEN e.RetryAfter ELSE backoff,
         returned |-> TRUE]

\* the else branch: the raw snippet is the message
RawSnippetBranch(r, snippet, p, att) ==
    LET msg        == SnippetString(snippet)
        rl         == parseRateLimitHeaders(r.Header)
        ra         == r.Header.RetryAfter
        secs       == Atoi(ra)
        retryAfter == IF ra # <<>> /\ secs.ok THEN secs.v * Second ELSE 0
        e          == [StatusCode |-> r.StatusCode, StatusText |-> r.Status, BodySnippet |-> msg,
                       RateLimit |-> rl, RetryAfter |-> retryAfter]
        retryable  == \E k \in 1..Len(p.RetryableStatusCodes) :
                          r.StatusCode = p.RetryableStatusCodes[k]
        backoff    == NextBackoff(p, att)
    IN  [apiErr |-> e,
         retry  |-> retryable /\ att < p.MaxAttempts,
         sleep  |-> IF e.RetryAfter > 0 /\ e.RetryAfter > backoff THEN e.RetryAfter ELSE backoff,
         returned |-> TRUE]

\* RunDefers closing only the body registered last
RunDefersLastOnly(l, d) ==
    IF d = <<>> THEN l
    ELSE [l EXCEPT ![d[Len(d)]].closes = @ + 1]

\* the deferred resp.Body.Close() calls run when httpRequest returns
RECURSIVE RunDefers(_, _)
RunDefers(l, d) ==
    IF d = <<>> THEN l
    ELSE RunDefers([l EXCEPT ![d[Len(d)]].closes = @ + 1], SubSeq(d, 1, Len(d) - 1))

\* log entry of a transport call: StatusCode 0 and cause <<err>> stand for "no response"
LogEntry(code, cause) == [StatusCode |-> code, cause |-> cause, closes |-> 0, snipped |-> FALSE]

ReqInit ==
    /\ pc = "Do"
    /\ attempt = 1
    /\ resp = <<>>
    /\ snippetBytes = <<>>
    /\ apiErr = <<>>
    /\ sleep = 0
    /\ defers = <<>>
    /\ ret = <<>>
    /\ err = <<>>
    /\ decodeErr = <<>>
    /\ log = <<>>
    /\ sleeps = <<>>

\* no parseRateLimitHeaders call under study
NoHeader == [Limit |-> <<>>, Remaining |-> <<>>, Reset |-> <<>>]

Init ==
    /\ ReqInit
    /\ policy = defaultRetryPolicy
    /\ calls = <<>>
    /\ header = NoHeader
    /\ parsed = <<>>
    /\ global = defaultRetryPolicy
    /\ conc = <<>>

\* http.DefaultClient.Do returns an error
DoError(cause) ==
    LET p == defaultRetryPolicy
    IN  /\ pc = "Do"
        /\ resp' = <<>>
        /\ snippetBytes' = <<>>
        /\ apiErr' = <<>>
        /\ IF attempt >= p.MaxAttempts
           THEN /\ pc' = "Returned"
                /\ ret' = <<>>
                /\ err' = <<ErrorfSend(cause)>>
                /\ log' = RunDefers(Append(log, LogEntry(0, <<cause>>)), defers)
                /\ defers' = <<>>
                /\ sleep' = sleep
           ELSE /\ pc' = "Sleep"
                /\ sleep' = NextBackoff(p, attempt)
                /\ log' = Append(log, LogEntry(0, <<cause>>))
                /\ UNCHANGED <<ret, err, defers>>
        /\ UNCHANGED <<attempt, decodeErr, sleeps, policy, calls, header, parsed, global, conc>>

\* DoOK with the deferred close registered before the status is looked at
DoOKDeferClose(r) ==
    /\ pc = "Do"
    /\ r.StatusCode = 200
    /\ resp' = <<r>>
    /\ pc' = "Returned"
    /\ ret' = <<r>>
    /\ err' = <<>>
    /\ log' = RunDefers(Append(log, LogEntry(r.StatusCode, <<>>)), Append(defers, Len(log) + 1))
    /\ defers' = <<>>
    /\ UNCHANGED <<attempt, snippetBytes, apiErr, sleep, decodeErr, sleeps, policy, calls, header, parsed, global, conc>>

\* http.DefaultClient.Do returns a response with status 200
DoOK(r) ==
    /\ pc = "Do"
    /\ r.StatusCode = 200
    /\ resp' = <<r>>
    /\ pc' = "Returned"
    /\ ret' = <<r>>
    /\ err' = <<>>
    /\ log' = RunDefers(Append(log, LogEntry(r.StatusCode, <<>>)), defers)
    /\ defers' = <<>>
    /\ UNCHANGED <<attempt, snippetBytes, apiErr, sleep, decodeErr, sleeps, policy, calls, header, parsed, global, conc>>

\* DoNon200 without the status check that lets a 200 response return first
DoNon200Unchecked(r) ==
    LET p         == defaultRetryPolicy
        snippet   == ReadSnippet(r.Body)
        errorResp == Unmarshal(snippet)
        out       == IF errorResp.ok /\ errorResp.Error.len # 0
                     THEN ErrorFieldBranch(r, errorResp, p, attempt)
                     ELSE RawSnippetBranch(r, snippet, p, attempt)
        entry     == [LogEntry(r.StatusCode, <<>>) EXCEPT !.snipped = TRUE]
        deferred  == Append(defers, Len(log) + 1)
    IN  /\ pc = "Do"
        /\ resp' = <<r>>
        /\ snippetBytes' = <<snippet>>
        /\ apiErr' = <<out.apiErr>>
        /\ IF out.retry
           THEN /\ pc' = "Sleep"
                /\ sleep' = out.sleep
                /\ log' = Append(log, entry)
                /\ defers' = deferred
                /\ UNCHANGED <<ret, err>>
           ELSE /\ pc' = "Returned"
                /\ ret' = <<>>
                /\ err' = IF out.returned
                          THEN <<ErrorfUnsuccessful(out.apiErr)>>
                          ELSE <<ErrorfUnexpected>>
                /\ log' = RunDefers(Append(log, entry), deferred)
                /\ defers' = <<>>
                /\ sleep' = sleep
        /\ UNCHANGED <<attempt, decodeErr, sleeps, policy, calls, header, parsed, global, conc>>

\* DoNon200 surfacing the status code of the first attempt of the call
DoNon200FirstStatus(r) ==
    LET p         == defaultRetryPolicy
        snippet   == ReadSnippet(r.Body)
        errorResp == Unmarshal(snippet)
        out       == IF errorResp.ok /\ errorResp.Error.len # 0
                     THEN ErrorFieldBranch(r, errorResp, p, attempt)
                     ELSE RawSnippetBranch(r, snippet, p, attempt)
        entry     == [LogEntry(r.StatusCode, <<>>) EXCEPT !.snipped = TRUE]
        deferred  == Append(defers, Len(log) + 1)
    IN  /\ pc = "Do"
        /\ r.StatusCode # 200
        /\ resp' = <<r>>
        /\ snippetBytes' = <<snippet>>
        /\ apiErr' = <<out.apiErr>>
        /\ IF out.retry
           THEN /\ pc' = "Sleep"
                /\ sleep' = out.sleep
                /\ log' = Append(log, entry)
                /\ defers' = deferred
                /\ UNCHANGED <<ret, err>>
           ELSE /\ pc' = "Returned"
                /\ ret' = <<>>
                /\ err' = IF out.returned
                          THEN <<ErrorfUnsuccessful([out.apiErr EXCEPT
                                    !.StatusCode = Append(log, entry)[1].StatusCode])>>
                          ELSE <<ErrorfUnexpected>>
                /\ log' = RunDefers(Append(log, entry), deferred)
                /\ defers' = <<>>
                /\ sleep' = sleep
        /\ UNCHANGED <<attempt, decodeErr, sleeps, policy, calls, header, parsed, global, conc>>

\* http.DefaultClient.Do returns a response with another status
DoNon200(r) ==
    LET p         == defaultRetryPolicy
        snippet   == ReadSnippet(r.Body)
        errorResp == Unmarshal(snippet)
        out       == IF errorResp.ok /\ errorResp.Error.len # 0
                     THEN ErrorFieldBranch(r, errorResp, p, attempt)
                     ELSE RawSnippetBranch(r, snippet, p, attempt)
        entry     == [LogEntry(r.StatusCode, <<>>) EXCEPT !.snipped = TRUE]
        deferred  == Append(defers, Len(log) + 1)
    IN  /\ pc = "Do"
        /\ r.StatusCode # 200
        /\ resp' = <<r>>
        /\ snippetBytes' = <<snippet>>
        /\ apiErr' = <<out.apiErr>>
        /\ IF out.retry
           THEN /\ pc' = "Sleep"
                /\ sleep' = out.sleep
                /\ log' = Append(log, entry)
                /\ defers' = deferred
                /\ UNCHANGED <<ret, err>>
           ELSE /\ pc' = "Returned"
                /\ ret' = <<>>
                /\ err' = IF out.returned
                          THEN <<ErrorfUnsuccessful(out.apiErr)>>
                          ELSE <<ErrorfUnexpected>>
                /\ log' = RunDefers(Append(log, entry), deferred)
                /\ defers' = <<>>
                /\ sleep' = sleep
        /\ UNCHANGED <<attempt, decodeErr, sleeps, policy, calls, header, parsed, global, conc>>

\* time.Sleep returns; attempt++; continue
SleepDone ==
    /\ pc = "Sleep"
    /\ sleeps' = Append(sleeps, [after |-> attempt, d |-> sleep])
    /\ attempt' = attempt + 1
    /\ pc' = "Do"
    /\ resp' = <<>>
    /\ snippetBytes' = <<>>
    /\ apiErr' = <<>>
    /\ UNCHANGED <<sleep, defers, ret, err, decodeErr, log, policy, calls, header, parsed, global, conc>>

\* decodeBody(resp, dest) on the response httpRequest returned
DecodeBody(ok) ==
    /\ pc = "Returned"
    /\ ret # <<>>
    /\ ok => ret[1].Body.shape # "notJSON"
    /\ decodeErr' = IF ok THEN <<>>
                    ELSE <<[type  |-> "wrapError",
                            text  |-> <<"failed to parse response: %w", <<"json">>>>,
                            wraps |-> <<errorsNew("json")>>]>>
    /\ log' = [log EXCEPT ![Len(log)].closes = @ + 1]
    /\ pc' = "Decoded"
    /\ UNCHANGED <<attempt, resp, snippetBytes, apiErr, sleep, defers, ret, err, sleeps, policy, calls, header, parsed, global, conc>>

Do ==
    \/ \E cause \in TransportErrors : DoError(cause)
    \/ \E r \in Responses : DoOK(r)
    \/ \E r \in Responses : DoNon200(r)

Next ==
    \/ Do
    \/ SleepDone
    \/ \E ok \in BOOLEAN : DecodeBody(ok)

Spec == Init /\ [][Next]_vars

\* every transport call and every sleep completes
FairSpec == Spec /\ WF_vars(Do) /\ WF_vars(SleepDone)

(***************************************************************************)
(* NextBackoff as a pure function: the receiver is drawn from Policies and *)
(* the function is called with attempt = 1, 2, ...                         *)
(***************************************************************************)
Policies ==
    {[MaxAttempts          |-> defaultRetryPolicy.MaxAttempts,
      InitialBackoff       |-> i,
      MaxBackoff           |-> m,
      Jitter               |-> j,
      RetryableStatusCodes |-> defaultRetryPolicy.RetryableStatusCodes] :
        i \in {0 - Second, 0, Second, 2 * Second, 3 * Second, 70 * Second},
        m \in {0 - Second, 0, 2 * Second, 5 * Second, 60 * Second},
        j \in {0 - 250 * Millisecond, 0, 250 * Millisecond}}

BackoffInit ==
    /\ ReqInit
    /\ policy \in Policies
    /\ calls = <<>>
    /\ header = NoHeader
    /\ parsed = <<>>
    /\ global = defaultRetryPolicy
    /\ conc = <<>>

CallNextBackoff ==
    /\ Len(calls) < MaxAttemptArg
    /\ calls' = Append(calls, NextBackoff(policy, Len(calls) + 1))
    /\ UNCHANGED <<policy>>
    /\ UNCHANGED reqVars
    /\ UNCHANGED rateLimitVars
    /\ UNCHANGED concVars

BackoffNext == CallNextBackoff

BackoffSpec == BackoffInit /\ [][BackoffNext]_vars

(***************************************************************************)
(* parseRateLimitHeaders as a pure function: the three header values are   *)
(* drawn from HeaderValues and the function is called once.                *)
(***************************************************************************)
HeaderValues ==
    {<<>>, <<"0">>, <<"7">>, <<"4", "0">>, <<"-", "3">>, <<"x">>, <<"1", ".", "5">>}

RateLimitInit ==
    /\ ReqInit
    /\ policy = defaultRetryPolicy
    /\ calls = <<>>
    /\ header \in [Limit : HeaderValues, Remaining : HeaderValues, Reset : HeaderValues]
    /\ parsed = <<>>
    /\ global = defaultRetryPolicy
    /\ conc = <<>>

CallParseRateLimitHeaders ==
    /\ parsed = <<>>
    /\ parsed' = <<parseRateLimitHeaders(header)>>
    /\ UNCHANGED <<header>>
    /\ UNCHANGED reqVars
    /\ UNCHANGED backoffVars
    /\ UNCHANGED concVars

RateLimitNext == CallParseRateLimitHeaders

RateLimitSpec == RateLimitInit /\ [][RateLimitNext]_vars

(***************************************************************************)
(* Concurrent httpRequest calls.  Each call has its own locals p, attempt, *)
(* resp, err; the only state they share is the package variable            *)
(* defaultRetryPolicy (global), copied into p when the call starts.        *)
(***************************************************************************)
Calls == {"a", "b"}

\* the responses and the transport error the concurrent calls get
ConcResponses ==
    {r \in Responses :
        /\ r.Body = [shape |-> "notJSON", len |-> 0]
        /\ r.Header.Limit = <<>> /\ r.Header.Remaining = <<>>
        /\ r.StatusCode \in {200, 404, 503}
        /\ r.Header.RetryAfter \in {<<>>, <<"1", "2", "0">>}
        /\ r.StatusCode # 503 => r.Header.RetryAfter = <<>>}

ConcTransportErrors == {errorsNew("dial tcp: connection refused")}

\* a call that has not yet executed its first statement
NotStarted ==
    [pc |-> "Start", p |-> <<>>, attempt |-> 0, sleep |-> 0, outcomes |-> <<>>, sleeps |-> <<>>,
     ret |-> <<>>, err |-> <<>>]

\* what a call records of a transport call: status 0 stands for "no response"
Outcome(code, retryAfter) == [StatusCode |-> code, RetryAfter |-> retryAfter]

ConcInit ==
    /\ ReqInit
    /\ policy = defaultRetryPolicy
    /\ calls = <<>>
    /\ header = NoHeader
    /\ parsed = <<>>
    /\ global = defaultRetryPolicy
    /\ conc = [c \in Calls |-> NotStarted]

\* p := defaultRetryPolicy; attempt := 1
CStart(c) ==
    /\ conc[c].pc = "Start"
    /\ conc' = [conc EXCEPT ![c].pc = "Do", ![c].p = <<global>>, ![c].attempt = 1]
    /\ UNCHANGED <<global, reqVars, backoffVars, rateLimitVars>>

\* http.DefaultClient.Do of call c returns an error
CDoError(c, cause) ==
    LET st == conc[c]
        p  == st.p[1]
        o  == Append(st.outcomes, Outcome(0, <<>>))
    IN  /\ st.pc = "Do"
        /\ conc' = IF st.attempt >= p.MaxAttempts
                   THEN [conc EXCEPT ![c].pc = "Returned", ![c].outcomes = o,
                                     ![c].err = <<ErrorfSend(cause)>>]
                   ELSE [conc EXCEPT ![c].pc = "Sleep", ![c].outcomes = o,
                                     ![c].sleep = NextBackoff(p, st.attempt)]
        /\ UNCHANGED <<global, reqVars, backoffVars, rateLimitVars>>

\* http.DefaultClient.Do of call c returns a response with status 200
CDoOK(c, r) ==
    LET st == conc[c]
    IN  /\ st.pc = "Do"
        /\ r.StatusCode = 200
        /\ conc' = [conc EXCEPT ![c].pc = "Returned", ![c].ret = <<r>>,
                                ![c].outcomes = Append(st.outcomes,
                                                       Outcome(r.StatusCode, r.Header.RetryAfter))]
        /\ UNCHANGED <<global, reqVars, backoffVars, rateLimitVars>>

\* CSleepDone incrementing one attempt counter shared by all calls
CSleepDoneShared(c) ==
    /\ conc[c].pc = "Sleep"
    /\ conc' = [d \in Calls |->
                   IF d = c
                   THEN [conc[d] EXCEPT !.pc = "Do", !.attempt = @ + 1,
                                        !.sleeps = Append(@, conc[c].sleep)]
                   ELSE [conc[d] EXCEPT !.attempt = @ + 1]]
    /\ UNCHANGED <<global, reqVars, backoffVars, rateLimitVars>>

\* time.Sleep of call c returns; attempt++; continue
CSleepDone(c) ==
    /\ conc[c].pc = "Sleep"
    /\ conc' = [conc EXCEPT ![c].pc = "Do", ![c].attempt = @ + 1,
                            ![c].sleeps = Append(@, conc[c].sleep)]
    /\ UNCHANGED <<global, reqVars, backoffVars, rateLimitVars>>

\* http.DefaultClient.Do of call c returns a response with another status
CDoNon200(c, r) ==
    LET st        == conc[c]
        p         == st.p[1]
        snippet   == ReadSnippet(r.Body)
        errorResp == Unmarshal(snippet)
        out       == IF errorResp.ok /\ errorResp.Error.len # 0
                     THEN ErrorFieldBranch(r, errorResp, p, st.attempt)
                     ELSE RawSnippetBranch(r, snippet, p, st.attempt)
        o         == Append(st.outcomes, Outcome(r.StatusCode, r.Header.RetryAfter))
    IN  /\ st.pc = "Do"
        /\ r.StatusCode # 200
        /\ conc' = IF out.retry
                   THEN [conc EXCEPT ![c].pc = "Sleep", ![c].outcomes = o, ![c].sleep = out.sleep]
                   ELSE [conc EXCEPT ![c].pc = "Returned", ![c].outcomes = o,
                                     ![c].err = IF out.returned
                                                THEN <<ErrorfUnsuccessful(out.apiErr)>>
                                                ELSE <<ErrorfUnexpected>>]
        /\ UNCHANGED <<global, reqVars, backoffVars, rateLimitVars>>

ConcNext ==
    \E c \in Calls :
        \/ CStart(c)
        \/ \E cause \in ConcTransportErrors : CDoError(c, cause)
        \/ \E r \in ConcResponses : CDoOK(c, r)
        \/ \E r \in ConcResponses : CDoNon200(c, r)
        \/ CSleepDone(c)

ConcSpec == ConcInit /\ [][ConcNext]_vars

(***************************************************************************)
(* Vocabulary of the properties                                            *)
(***************************************************************************)
MaxAttempts == defaultRetryPolicy.MaxAttempts

\* the status codes the default policy retries
RetryableSet == {429, 500, 502, 503, 504}

Last == log[Len(log)]

\* httpRequest has returned (decodeBody may have run after it)
Returned == pc \in {"Returned", "Decoded"}

OperationError == err # <<>> /\ errorsIs(err[1], ErrorReqUnsuccessful)

Max2(a, b) == IF a >= b THEN a ELSE b

Min2(a, b) == IF a <= b THEN a ELSE b

RECURSIVE Pow2(_)
Pow2(n) == IF n = 0 THEN 1 ELSE 2 * Pow2(n - 1)

\* the integer a Retry-After value denotes, 0 when it is missing or not an integer
RetryAfterSeconds(h) ==
    CASE h = <<"1">>           -> 1
      [] h = <<"1", "2", "0">> -> 120
      [] h = <<"-", "5">>      -> 0 - 5
      [] OTHER                 -> 0

(***************************************************************************)
(* C1: one httpRequest call ends with a result or an error after at most   *)
(* MaxAttempts transport calls when every transport call and sleep         *)
(* completes; attempt starts at 1, grows by exactly 1 per retry (a         *)
(* completed sleep) and by nothing else, and never exceeds MaxAttempts.    *)
(***************************************************************************)
C1_TerminatesWithinMaxAttempts ==
    /\ attempt = 1
    /\ [](/\ attempt \in 1..MaxAttempts
          /\ Len(log) <= MaxAttempts
          /\ Len(log) = IF pc = "Do" THEN attempt - 1 ELSE attempt
          /\ Len(sleeps) = attempt - 1
          /\ Returned => (ret # <<>>) # (err # <<>>))
    /\ [][IF pc = "Sleep" /\ pc' = "Do" THEN attempt' = attempt + 1 ELSE attempt' = attempt]_vars
    /\ <>Returned

C1_Witness ==
    /\ pc = "Returned"
    /\ Len(log) = MaxAttempts
    /\ attempt = MaxAttempts
    /\ \E i \in 1..Len(log) : log[i].StatusCode = 0
    /\ \E i \in 1..Len(log) : log[i].StatusCode = 503

(***************************************************************************)
(* C2: when every attempt gets a retryable status, httpRequest makes       *)
(* exactly MaxAttempts transport calls and MaxAttempts - 1 sleeps, one     *)
(* after each attempt but the last, and returns an operation error.        *)
(***************************************************************************)
C2_AllRetryableExhausts ==
    (pc = "Returned" /\ \A i \in 1..Len(log) : log[i].StatusCode \in RetryableSet)
        => /\ Len(log) = MaxAttempts
           /\ Len(sleeps) = MaxAttempts - 1
           /\ \A i \in 1..(MaxAttempts - 1) : sleeps[i].after = i
           /\ OperationError
           /\ ret = <<>>

C2_Witness ==
    /\ pc = "Returned"
    /\ Len(log) = 5
    /\ Len(sleeps) = 4
    /\ \A i \in 1..Len(log) : log[i].StatusCode = 503

(***************************************************************************)
(* C3: a non-200 response whose status is not retryable makes httpRequest  *)
(* return an operation error right after that attempt: no sleep follows    *)
(* it, no transport call follows it; on the first attempt the call has     *)
(* one transport call and no sleep.                                        *)
(***************************************************************************)
C3_NonRetryableReturnsAtOnce ==
    \A i \in 1..Len(log) :
        (log[i].StatusCode \notin ({0, 200} \cup RetryableSet))
            => /\ i = Len(log)
               /\ pc = "Returned"
               /\ OperationError
               /\ ret = <<>>
               /\ Len(sleeps) = i - 1
               /\ \A k \in 1..Len(sleeps) : sleeps[k].after < i
               /\ i = 1 => (Len(log) = 1 /\ sleeps = <<>>)

C3_Witness ==
    /\ pc = "Returned"
    /\ Len(log) = 1
    /\ log[1].StatusCode = 404
    /\ sleeps = <<>>
    /\ OperationError

(***************************************************************************)
(* C4: a 200 response is returned as success at once: no sleep after it,   *)
(* no snippet read from it, no APIError built (no classification, no       *)
(* rate-limit parsing), and its body is neither read nor closed when       *)
(* httpRequest returns.                                                    *)
(***************************************************************************)
C4_OKReturnsUntouched ==
    \A i \in 1..Len(log) :
        log[i].StatusCode = 200
            => /\ i = Len(log)
               /\ Returned
               /\ err = <<>>
               /\ ret = resp /\ ret # <<>> /\ ret[1].StatusCode = 200
               /\ Len(sleeps) = i - 1
               /\ ~log[i].snipped
               /\ snippetBytes = <<>>
               /\ apiErr = <<>>
               /\ pc = "Returned" => log[i].closes = 0

C4_Witness ==
    /\ pc = "Returned"
    /\ Len(log) = 3
    /\ log[1].StatusCode = 503
    /\ Last.StatusCode = 200
    /\ Last.closes = 0
    /\ ret # <<>>

(***************************************************************************)
(* C5: a retry after a non-200 response at attempt k waits                 *)
(* max(NextBackoff(k), RetryAfter), RetryAfter being the Retry-After       *)
(* header in seconds, 0 when missing or not an integer.                    *)
(***************************************************************************)
C5_WaitIsMaxOfBackoffAndRetryAfter ==
    (pc = "Sleep" /\ Last.StatusCode # 0)
        => sleep = Max2(Min2(2 * Second * Pow2(attempt - 1), 60 * Second) + 250 * Millisecond,
                        RetryAfterSeconds(resp[1].Header.RetryAfter) * Second)

C5_Witness ==
    /\ pc = "Sleep"
    /\ attempt = 2
    /\ Last.StatusCode = 503
    /\ resp[1].Header.RetryAfter = <<"1", "2", "0">>
    /\ sleep = 120 * Second

(***************************************************************************)
(* C6: a transport failure at attempt k < MaxAttempts is followed by a     *)
(* sleep of NextBackoff(k) and a retry; at k >= MaxAttempts httpRequest    *)
(* returns an error that wraps the cause and is not the sentinel.  A       *)
(* returned error is the sentinel kind iff the last attempt got a non-200  *)
(* response.                                                               *)
(***************************************************************************)
C6_TransportFailure ==
    /\ (pc = "Sleep" /\ Last.StatusCode = 0)
           => /\ attempt < MaxAttempts
              /\ sleep = Min2(2 * Second * Pow2(attempt - 1), 60 * Second) + 250 * Millisecond
    /\ \A i \in 1..Len(sleeps) :
           log[i].StatusCode = 0
               => /\ sleeps[i].after = i
                  /\ sleeps[i].d = Min2(2 * Second * Pow2(i - 1), 60 * Second) + 250 * Millisecond
    /\ \A i \in 1..Len(log) :
           (log[i].StatusCode = 0 /\ i < MaxAttempts) => (pc = "Sleep" \/ attempt > i)
    /\ (pc = "Returned" /\ Last.StatusCode = 0)
           => /\ attempt >= MaxAttempts
              /\ ret = <<>>
              /\ err # <<>>
              /\ err[1].wraps = Last.cause
              /\ ~errorsIs(err[1], ErrorReqUnsuccessful)
    /\ (pc = "Returned" /\ err # <<>>)
           => (errorsIs(err[1], ErrorReqUnsuccessful) <=> Last.StatusCode \notin {0, 200})

C6_Witness ==
    /\ pc = "Returned"
    /\ Len(log) = MaxAttempts
    /\ \A i \in 1..Len(log) : log[i].StatusCode = 0
    /\ err # <<>>
    /\ Len(sleeps) = MaxAttempts - 1

(***************************************************************************)
(* C7: the error returned for a terminal non-200 response is wrapped in    *)
(* the sentinel and lets the caller read the APIError's status code,       *)
(* status text, message, RateLimit and RetryAfter: each is printed in the  *)
(* error text or the APIError itself can be unwrapped from the error.      *)
(***************************************************************************)
\* field f of APIError a can be read from the returned error e
Readable(e, a, f) ==
    \/ \E w \in errorChain(e) : w.type = "APIError"
    \/ LET printed == e.text[3]
       IN  f \in DOMAIN printed /\ printed[f] = a[f]

C7_ErrorCarriesAPIError ==
    (pc = "Returned" /\ err # <<>> /\ Last.StatusCode # 0)
        => /\ errorsIs(err[1], ErrorReqUnsuccessful)
           /\ Readable(err[1], apiErr[1], "StatusCode")
           /\ Readable(err[1], apiErr[1], "StatusText")
           /\ apiErr[1].BodySnippet.len # 0 => Readable(err[1], apiErr[1], "BodySnippet")
           /\ Readable(err[1], apiErr[1], "RateLimit")
           /\ Readable(err[1], apiErr[1], "RetryAfter")

(***************************************************************************)
(* C8: for a policy with 0 < InitialBackoff <= MaxBackoff and Jitter >= 0, *)
(* NextBackoff(a) = min(InitialBackoff * 2^(a-1), MaxBackoff) + Jitter for *)
(* every a >= 1; with 2s and 60s the values are 2s+j, 4s+j, 8s+j, 16s+j,   *)
(* 32s+j, 60s+j and 60s+j from then on.                                    *)
(***************************************************************************)
C8_BackoffClosedForm ==
    (0 < policy.InitialBackoff /\ policy.InitialBackoff <= policy.MaxBackoff /\ policy.Jitter >= 0)
        => /\ \A a \in 1..Len(calls) :
                  calls[a] = Min2(policy.InitialBackoff * Pow2(a - 1), policy.MaxBackoff)
                                 + policy.Jitter
           /\ Len(calls) >= 1 => calls[1] = policy.InitialBackoff + policy.Jitter
           /\ (policy.InitialBackoff = 2 * Second /\ policy.MaxBackoff = 60 * Second)
                  => \A a \in 1..Len(calls) :
                         calls[a] = policy.Jitter +
                             (CASE a = 1 -> 2 * Second
                                [] a = 2 -> 4 * Second
                                [] a = 3 -> 8 * Second
                                [] a = 4 -> 16 * Second
                                [] a = 5 -> 32 * Second
                                [] OTHER -> 60 * Second)

C8_Witness ==
    /\ policy = defaultRetryPolicy
    /\ Len(calls) >= 7
    /\ calls[5] = 32 * Second + 250 * Millisecond
    /\ calls[6] = 60 * Second + 250 * Millisecond
    /\ calls[7] = 60 * Second + 250 * Millisecond

(***************************************************************************)
(* C9: NextBackoff is non-decreasing in attempt and at most                *)
(* MaxBackoff + Jitter.  As claimed, for every RetryPolicy value:          *)
(***************************************************************************)
MonotoneAndBounded ==
    \A a \in 1..Len(calls) :
        /\ calls[a] <= policy.MaxBackoff + policy.Jitter
        /\ a > 1 => calls[a - 1] <= calls[a]

C9_MonotoneBoundedAnyPolicy == MonotoneAndBounded

\* C9 as amended: for every policy with 0 <= InitialBackoff <= MaxBackoff and
\* Jitter >= 0, NextBackoff is non-decreasing in attempt and at most MaxBackoff + Jitter.
C9_MonotoneBoundedValidPolicy ==
    (0 <= policy.InitialBackoff /\ policy.InitialBackoff <= policy.MaxBackoff /\ policy.Jitter >= 0)
        => MonotoneAndBounded

C9_Witness ==
    /\ policy.InitialBackoff = 3 * Second
    /\ policy.MaxBackoff = 5 * Second
    /\ policy.Jitter = 0
    /\ Len(calls) >= 3
    /\ calls[1] = 3 * Second
    /\ calls[2] = 5 * Second
    /\ calls[3] = 5 * Second

(***************************************************************************)
(* C10: every response body is released before httpRequest loops or        *)
(* returns: no body of an earlier attempt is open when a transport call    *)
(* is issued, and one call never holds more than one open body.            *)
(***************************************************************************)
OpenBodies == {i \in 1..Len(log) : log[i].StatusCode # 0 /\ log[i].closes = 0}

C10_BodiesReleasedBeforeLoop ==
    /\ Cardinality(OpenBodies) <= 1
    /\ pc = "Do" => OpenBodies = {}

(***************************************************************************)
(* C11: when httpRequest, and decodeBody after a success, have returned,   *)
(* the body of every response obtained during the call has been closed     *)
(* exactly once, whichever branch its attempt took; no body is ever closed *)
(* twice.                                                                  *)
(***************************************************************************)
\* httpRequest returned an error, or returned a response that decodeBody has consumed
Finished == pc = "Decoded" \/ (pc = "Returned" /\ err # <<>>)

C11_EveryBodyClosedOnce ==
    /\ \A i \in 1..Len(log) :
           log[i].closes <= (IF log[i].StatusCode = 0 THEN 0 ELSE 1)
    /\ Finished => \A i \in 1..Len(log) : log[i].StatusCode # 0 => log[i].closes = 1

C11_Witness ==
    /\ pc = "Decoded"
    /\ decodeErr # <<>>
    /\ Len(log) = 4
    /\ log[1].StatusCode = 503
    /\ log[2].StatusCode = 0
    /\ log[3].StatusCode = 503
    /\ log[4].StatusCode = 200
    /\ \A i \in {1, 3, 4} : log[i].closes = 1

(***************************************************************************)
(* C12: when the caller cancels during an attempt (the transport call      *)
(* fails with "context canceled"), httpRequest returns a cancellation      *)
(* error at once: no sleep and no transport call follows that attempt.     *)
(***************************************************************************)
Canceled == errorsNew("context canceled")

C12_CancelStopsRetries ==
    \A i \in 1..Len(log) :
        log[i].cause = <<Canceled>>
            => /\ i = Len(log)
               /\ pc = "Returned"
               /\ err # <<>>
               /\ errorsIs(err[1], Canceled)
               /\ Len(sleeps) = i - 1

(***************************************************************************)
(* C14: an operation error is surfaced only for a non-2xx response: a      *)
(* response whose status is in 200..299 never makes httpRequest end with   *)
(* the "request unsuccessful" error.                                       *)
(***************************************************************************)
C14_No2xxOperationError ==
    (pc = "Returned" /\ Last.StatusCode \in 200..299) => ~OperationError

\* C14 as amended: an operation error is surfaced only for a response whose status
\* is not 200; a 200 response never ends with it, any other 2xx status does.
C14_OnlyNon200OperationError ==
    pc = "Returned"
        => /\ OperationError => Last.StatusCode \notin {0, 200}
           /\ Last.StatusCode = 200 => (err = <<>> /\ ret # <<>>)
           /\ Last.StatusCode \in 201..299 => (OperationError /\ ret = <<>>)

C14_Witness ==
    /\ pc = "Returned"
    /\ Len(log) = 2
    /\ log[1].StatusCode = 503
    /\ Last.StatusCode = 204
    /\ OperationError

(***************************************************************************)
(* C20: the fallback at the end of the loop body is unreachable:           *)
(* httpRequest never returns the "unexpected error state" error, because   *)
(* every non-200 response either continues the loop or returns inside one  *)
(* of the two parse branches.                                              *)
(***************************************************************************)
C20_FallbackUnreachable ==
    /\ err # <<>> => err[1] # ErrorfUnexpected
    /\ apiErr # <<>>
           => \/ pc = "Sleep" /\ err = <<>>
              \/ pc = "Returned" /\ err = <<ErrorfUnsuccessful(apiErr[1])>>

C20_Witness ==
    /\ pc = "Returned"
    /\ Len(log) = MaxAttempts
    /\ Last.StatusCode = 503
    /\ snippetBytes[1].shape = "notJSON"
    /\ err = <<ErrorfUnsuccessful(apiErr[1])>>

ExpectedRateLimit(h) ==
    IF h.Limit = <<"4", "0">>
    THEN <<[Limit |-> 40, Remaining |-> 0, Reset |-> 17]>>
    ELSE <<>>

\* the snippet is a JSON object with a non-empty "error" field
ParsesWithError(body) == body.shape = "errorObject" /\ body.len <= 1024

\* the message the final error carries for a response body
ExpectedMessage(body) ==
    IF ParsesWithError(body)
    THEN [of |-> "error field", len |-> body.len - 12]
    ELSE [of |-> "snippet", len |-> Min2(body.len, 1024)]

C18_ParseDecidesOnlyMessage ==
    apiErr # <<>>
        => LET r       == resp[1]
               retries == r.StatusCode \in RetryableSet /\ attempt < MaxAttempts
               wait    == Max2(Min2(2 * Second * Pow2(attempt - 1), 60 * Second)
                                   + 250 * Millisecond,
                               RetryAfterSeconds(r.Header.RetryAfter) * Second)
           IN  /\ (pc = "Sleep") = retries
               /\ (pc = "Returned") = ~retries
               /\ pc = "Sleep" => sleep = wait
               /\ apiErr[1].StatusCode = r.StatusCode
               /\ apiErr[1].StatusText = r.Status
               /\ apiErr[1].RateLimit = ExpectedRateLimit(r.Header)
               /\ apiErr[1].RetryAfter = RetryAfterSeconds(r.Header.RetryAfter) * Second
               /\ apiErr[1].BodySnippet = ExpectedMessage(r.Body)

C18_Witness ==
    /\ pc = "Sleep"
    /\ attempt = 3
    /\ resp # <<>>
    /\ ParsesWithError(resp[1].Body)
    /\ apiErr[1].BodySnippet.of = "error field"
    /\ apiErr[1].RateLimit # <<>>
    /\ sleep = 8 * Second + 250 * Millisecond

(***************************************************************************)
(* C19: an operation error surfaced after several attempts is built from   *)
(* the response of the last attempt only: its status code, status text and *)
(* message are those of the final response and nothing of an earlier       *)
(* response or transport failure appears in it.                            *)
(***************************************************************************)
C19_ErrorFromLastResponseOnly ==
    (pc = "Returned" /\ OperationError)
        => LET printed == err[1].text[3]
               msg     == ExpectedMessage(resp[1].Body)
           IN  /\ resp[1].StatusCode = Last.StatusCode
               /\ err[1].text[1] = "%w: %v"
               /\ err[1].text[2] = ErrorReqUnsuccessful.text
               /\ err[1].wraps = <<ErrorReqUnsuccessful>>
               /\ printed.StatusCode = Last.StatusCode
               /\ printed.StatusText = resp[1].Status
               /\ IF msg.len = 0
                  THEN DOMAIN printed = {"format", "StatusCode", "StatusText"}
                  ELSE /\ DOMAIN printed = {"format", "StatusCode", "StatusText", "BodySnippet"}
                       /\ printed.BodySnippet = msg

C19_Witness ==
    /\ pc = "Returned"
    /\ Len(log) = 3
    /\ log[1].StatusCode = 0
    /\ log[2].StatusCode = 503
    /\ log[3].StatusCode = 404
    /\ OperationError
    /\ err[1].text[3].StatusCode = 404

(***************************************************************************)
(* C15: headers with X-RateLimit-Remaining: 0 and no other rate-limit      *)
(* header still give a present (non-nil) RateLimit.                        *)
(***************************************************************************)
C15_RemainingZeroIsPresent ==
    (parsed # <<>> /\ header = [Limit |-> <<>>, Remaining |-> <<"0">>, Reset |-> <<>>])
        => parsed[1] # <<>>

(***************************************************************************)
(* C16: parseRateLimitHeaders reads the three headers as integers, an      *)
(* absent, empty or unparseable header counting as 0, and returns a        *)
(* RateLimit with the three values iff one of them is nonzero, nil         *)
(* otherwise.                                                              *)
(***************************************************************************)
\* the integer a value of HeaderValues denotes, 0 when it denotes none
HeaderInt(h) ==
    CASE h = <<"7">>      -> 7
      [] h = <<"4", "0">> -> 40
      [] h = <<"-", "3">> -> 0 - 3
      [] OTHER            -> 0

C16_RateLimitIffNonzero ==
    parsed # <<>>
        => LET l == HeaderInt(header.Limit)
               r == HeaderInt(header.Remaining)
               t == HeaderInt(header.Reset)
           IN  IF l # 0 \/ r # 0 \/ t # 0
               THEN parsed[1] = <<[Limit |-> l, Remaining |-> r, Reset |-> t]>>
               ELSE parsed[1] = <<>>

C16_Witness ==
    /\ header = [Limit |-> <<"x">>, Remaining |-> <<"7">>, Reset |-> <<>>]
    /\ parsed = << <<[Limit |-> 0, Remaining |-> 7, Reset |-> 0]>> >>

(***************************************************************************)
(* C13: concurrent httpRequest calls are independent: under every          *)
(* interleaving the attempts, sleeps and result of a call are determined   *)
(* by the outcomes of its own transport calls, each call has its own       *)
(* attempt counter, and no call writes the shared default RetryPolicy.     *)
(***************************************************************************)
\* the backoff of the default policy after attempt i
DefaultBackoff(i) == Min2(2 * Second * Pow2(i - 1), 60 * Second) + 250 * Millisecond

\* attempt i with outcome o is followed by a sleep and another attempt
Retried(i, o) == i < 5 /\ (o.StatusCode = 0 \/ o.StatusCode \in RetryableSet)

\* the sleep that follows attempt i with outcome o
WaitAfter(i, o) ==
    IF o.StatusCode = 0
    THEN DefaultBackoff(i)
    ELSE Max2(DefaultBackoff(i), RetryAfterSeconds(o.RetryAfter) * Second)

\* the state of a call is the one its own outcomes determine
OwnOutcomesDecide(st) ==
    LET n == Len(st.outcomes)
    IN  /\ st.pc = "Start" => (n = 0 /\ st.sleeps = <<>>)
        /\ st.pc # "Start" => (st.p = <<defaultRetryPolicy>> /\ Len(st.sleeps) = st.attempt - 1)
        /\ st.pc = "Do" => n = st.attempt - 1
        /\ st.pc \in {"Sleep", "Returned"} => n = st.attempt
        /\ \A i \in 1..Len(st.sleeps) :
               Retried(i, st.outcomes[i]) /\ st.sleeps[i] = WaitAfter(i, st.outcomes[i])
        /\ st.pc = "Sleep" => (Retried(n, st.outcomes[n]) /\ st.sleep = WaitAfter(n, st.outcomes[n]))
        /\ st.pc = "Returned"
               => /\ ~Retried(n, st.outcomes[n])
                  /\ st.outcomes[n].StatusCode = 200 => (st.ret # <<>> /\ st.err = <<>>)
                  /\ st.outcomes[n].StatusCode = 0
                         => (st.ret = <<>> /\ st.err # <<>>
                             /\ ~errorsIs(st.err[1], ErrorReqUnsuccessful))
                  /\ st.outcomes[n].StatusCode \notin {0, 200}
                         => (st.ret = <<>> /\ st.err # <<>>
                             /\ errorsIs(st.err[1], ErrorReqUnsuccessful)
                             /\ st.err[1].text[3].StatusCode = st.outcomes[n].StatusCode)
        /\ st.pc # "Returned" => (st.ret = <<>> /\ st.err = <<>>)

C13_CallsIndependent ==
    /\ global = defaultRetryPolicy
    /\ \A c \in DOMAIN conc : OwnOutcomesDecide(conc[c])

C13_Witness ==
    /\ conc # <<>>
    /\ conc["a"].pc = "Sleep"
    /\ conc["a"].attempt = 2
    /\ conc["a"].sleep = 120 * Second
    /\ conc["b"].pc = "Returned"
    /\ conc["b"].attempt = 4
    /\ conc["b"].outcomes[1].StatusCode = 0
    /\ conc["b"].outcomes[4].StatusCode = 404

====
